---------------------------- MODULE Spec2Model ----------------------------
(***************************************************************************)
(* Model of the Chuffed bridge of aria-planner.                            *)
(*                                                                         *)
(*   c_src/chuffed_solver.cpp   the NIF: solve_flatzinc, create_solver,    *)
(*                              destroy_solver and their helpers           *)
(*   c_src/chuffed_cnode_simple the standalone driver (main)               *)
(*                                                                         *)
(* Three specifications share the module:                                  *)
(*   SpecSolve   concurrent calls of solve_flatzinc_nif on one file system *)
(*   SpecHandle  create_solver_nif / destroy_solver_nif / the destructor   *)
(*   SpecDriver  one run of the standalone driver                          *)
(*                                                                         *)
(* Byte strings (std::string, binaries, paths) are sequences of one-       *)
(* character strings, so that find, find_last_of, substr and the template  *)
(* test of mkstemp are computed as the code computes them.                 *)
(***************************************************************************)
EXTENDS Integers, Sequences, FiniteSets, TLC

\* Number of solve_flatzinc_nif calls that may overlap.
NumCalls == 2

Calls == 1..NumCalls

\* Number of handles create_solver_nif may hand out, and of destroy_solver
\* calls made on one handle.
MaxHandles == 3
MaxDestroy == 2

Handles == 1..MaxHandles

\* Length of the driver's standard input.
MaxStdin == 2

-----------------------------------------------------------------------------
(* Byte strings *)

TmpDir == <<"/", "t", "m", "p", "/">>
Prefix == <<"c", "h", "u", "f", "f", "e", "d", "_">>
Suffix == <<".", "f", "z", "n">>
SixX == <<"X", "X", "X", "X", "X", "X">>
WinTempDir == <<"C", ":", "\\", "T", "\\">>
CHF == <<"C", "H", "F">>
DotTmp == <<".", "t", "m", "p">>
Terminator == <<"=", "=", "=", "=", "=", "=", "=", "=", "=", "=">>

\* What the solver and the shell print (the child is external: these are the
\* texts the end-to-end scenarios of the bridge expect).
SolutionText == <<"x", " ", "=", " ", "2", ";", "\n", "-", "-", "-", "-", "-", "-", "-", "-", "-", "-", "\n", "=", "=", "=", "=", "=", "=", "=", "=", "=", "=", "\n">>
UnsatText == <<"=", "=", "=", "=", "=", "U", "N", "S", "A", "T", "I", "S", "F", "I", "A", "B", "L", "E", "=", "=", "=", "=", "=", "\n">>
ParseErrorText == <<"s", "y", "n", "t", "a", "x", " ", "e", "r", "r", "o", "r", "\n">>
CannotOpenText == <<"c", "a", "n", "n", "o", "t", " ", "o", "p", "e", "n", " ", "f", "i", "l", "e", "\n">>
ShNotFoundText == <<"s", "h", ":", " ", "c", "h", "u", "f", "f", "e", "d", ":", " ", "n", "o", "t", " ", "f", "o", "u", "n", "d", "\n">>
CmdNotFoundText == <<"'", "c", "h", "u", "f", "f", "e", "d", "'", " ", "i", "s", " ", "n", "o", "t", " ", "r", "e", "c", "o", "g", "n", "i", "z", "e", "d", "\n">>

\* FlatZinc payloads: a satisfiable problem, an infeasible one.
FznSat == <<"x", "=", "2">>
FznUnsat == <<"x", "=", "5">>

\* std::string::npos
npos == -1

\* std::string::find(pat): the first 0-based position of pat in s, or npos.
find(s, pat) ==
    LET hits == {k \in 0..(Len(s) - Len(pat)) : SubSeq(s, k + 1, k + Len(pat)) = pat}
    IN  IF hits = {} THEN npos ELSE CHOOSE k \in hits : \A m \in hits : k <= m

\* std::string::find_last_of(c): the last 0-based position of c in s, or npos.
find_last_of(s, c) ==
    LET hits == {k \in 0..(Len(s) - 1) : s[k + 1] = c}
    IN  IF hits = {} THEN npos ELSE CHOOSE k \in hits : \A m \in hits : k >= m

\* std::string::substr(0, n)
substr0(s, n) == SubSeq(s, 1, n)

-----------------------------------------------------------------------------
(* Host terms *)

Atom(a) == [atom |-> a]
Str(s) == [string |-> s]
Bin(b) == [bin |-> b]
Tuple2(t, p) == [tag |-> t, payload |-> p]
NoResult == Tuple2("none", Atom("none"))

\* The first argument a caller may pass to solve_flatzinc/2.
PayloadTerms == {Atom("not_a_binary"), Bin(FznSat), Bin(FznUnsat)}

\* enif_inspect_binary succeeds exactly on binaries.
get_binary(term) == "bin" \in DOMAIN term

\* make_binary: a binary holding str, or the atom error when the host cannot
\* allocate it.
make_binary(str, allocOK) == IF allocOK THEN Bin(str) ELSE Atom("error")

\* What the host allocators (enif_alloc_binary, enif_alloc_resource) answer.
\* Exhausted memory is outside the model, as it is for std::string and
\* new[], whose failure the code does not handle at all.
AllocOutcomes == {TRUE}

-----------------------------------------------------------------------------
VARIABLES
    \* SpecSolve: the host
    win32,            \* the build: TRUE when _WIN32 is defined
    libc,             \* what mkstemp does with a template not ending in XXXXXX
    chuffedOnPath,    \* whether the shell resolves "chuffed"
    fs,               \* the scratch directory: path -> [inode, content]
    \* SpecSolve: each call of solve_flatzinc_nif
    pc, flatzinc_content, temp_file, output, pstatus, exit_code, result,
    \* SpecHandle: the host's resources of type ChuffedSolver
    res,              \* handle -> the resource object and its ChuffedSolver
    held,             \* the handles whose resource term the host still holds
    destroyLog,       \* handle -> what each destroy_solver call on it returned
    reply,            \* what the last create_solver / destroy_solver returned
    \* SpecDriver: one run of the standalone driver
    dpc, cin, drv_content, fz_s, errors, solution, engine_status, cout, cerr, exit_status

solveVars == <<win32, libc, chuffedOnPath, fs, pc, flatzinc_content, temp_file,
               output, pstatus, exit_code, result>>

handleVars == <<res, held, destroyLog, reply>>

driverVars == <<dpc, cin, drv_content, fz_s, errors, solution, engine_status, cout, cerr, exit_status>>

vars == <<solveVars, handleVars, driverVars>>

\* The parts of the state a specification leaves alone.
HandleQuiet ==
    /\ res = [h \in Handles |-> [state |-> "none", refc |-> 0, solver |-> "NULL",
                                  initialized |-> FALSE, dtorRuns |-> 0, cleanups |-> 0]]
    /\ held = {}
    /\ destroyLog = [h \in Handles |-> <<>>]
    /\ reply = NoResult

\* engine.status and FlatZinc::s are the solver's globals; main reads them
\* only after the calls that set them.
DriverQuiet ==
    /\ dpc = "read" /\ cin = <<>> /\ drv_content = <<>> /\ fz_s = "nullptr"
    /\ errors = <<>> /\ solution = <<>> /\ engine_status = "RES_UNK"
    /\ cout = <<>> /\ cerr = <<>> /\ exit_status = -1

-----------------------------------------------------------------------------
(* The file system *)

Exists(fsys, p) == p \in DOMAIN fsys

CreateFile(fsys, p, ino) ==
    [q \in DOMAIN fsys \cup {p} |-> IF q = p THEN [inode |-> ino, content |-> <<>>] ELSE fsys[q]]

\* remove(path) / DeleteFileA(path): the name goes away if it is there; the
\* code never looks at the return value.
remove(fsys, p) == [q \in DOMAIN fsys \ {p} |-> fsys[q]]

-----------------------------------------------------------------------------
(* create_temp_file *)

\* The unique tokens the name primitives may draw.
MkstempTokens == {<<"a", "a", "a", "a", "a", "1">>, <<"a", "a", "a", "a", "a", "2">>}
WinTokens == {<<"1">>, <<"2">>}

\* mkstemp(template): the outcomes [fd, path, fs].  A template ending in
\* XXXXXX gets the X's replaced by a token that names no existing file, and
\* the file is created exclusively.  A template that does not end in XXXXXX
\* is outside the contract of mkstemp: glibc and musl fail with EINVAL, the
\* BSD family creates the template path itself with O_CREAT|O_EXCL and fails
\* with EEXIST when it is there.
mkstemp(tmpl, fsys, ino) ==
    LET n == Len(tmpl)
        failed == [fd |-> -1, path |-> tmpl, fs |-> fsys]
    IN  IF n >= 6 /\ SubSeq(tmpl, n - 5, n) = SixX
        THEN LET stem == SubSeq(tmpl, 1, n - 6)
                 free == {t \in MkstempTokens : ~Exists(fsys, stem \o t)}
             IN  IF free = {} THEN {failed}
                 ELSE {[fd |-> 3, path |-> stem \o t, fs |-> CreateFile(fsys, stem \o t, ino)] : t \in free}
        ELSE IF libc = "EINVAL" \/ Exists(fsys, tmpl) THEN {failed}
             ELSE {[fd |-> 3, path |-> tmpl, fs |-> CreateFile(fsys, tmpl, ino)]}

\* GetTempFileNameA(dir, prefix, 0): the outcomes [ret, temp_file, fs]: 0, or
\* a name dir + prefix + token + ".tmp" that named no file, now created.
GetTempFileNameA(dir, pfx, fsys, ino) ==
    {[ret |-> 0, temp_file |-> <<>>, fs |-> fsys]} \cup
    {[ret |-> 1, temp_file |-> dir \o pfx \o t \o DotTmp,
      fs |-> CreateFile(fsys, dir \o pfx \o t \o DotTmp, ino)] :
        t \in {u \in WinTokens : ~Exists(fsys, dir \o pfx \o u \o DotTmp)}}

\* create_temp_file(prefix, suffix, temp_path): the outcomes [ok, temp_path, fs].
create_temp_file(prefix, suffix, fsys, ino) ==
    IF win32
    THEN \* GetTempPathA returning 0 and GetTempFileNameA returning 0 both
         \* return false with nothing created.
         {IF r.ret = 0
          THEN [ok |-> FALSE, temp_path |-> <<>>, fs |-> fsys]
          ELSE LET base_name == r.temp_file
                   last_dot == find_last_of(base_name, ".")
                   stem == IF last_dot # npos THEN substr0(base_name, last_dot) ELSE base_name
               IN  [ok |-> TRUE, temp_path |-> stem \o suffix, fs |-> remove(r.fs, r.temp_file)]
          : r \in GetTempFileNameA(WinTempDir, CHF, fsys, ino)}
    ELSE {IF r.fd = -1
          THEN [ok |-> FALSE, temp_path |-> <<>>, fs |-> fsys]
          ELSE [ok |-> TRUE, temp_path |-> r.path, fs |-> r.fs]
          : r \in mkstemp(TmpDir \o prefix \o SixX \o suffix, fsys, ino)}

-----------------------------------------------------------------------------
(* execute_command *)

\* How the child may end: exit(code), or (POSIX) killed by a signal.
Exited(c) == [exited |-> TRUE, n |-> c]
Signaled(s) == [exited |-> FALSE, n |-> s]
Terminations == IF win32 THEN {Exited(0), Exited(1)} ELSE {Exited(0), Exited(1), Signaled(9)}

\* What the solver prints for the file it is given: a solution, the
\* unsatisfiability line, or a diagnostic for a file that is missing or
\* holds anything else.
SolverText(fsys, path) ==
    IF ~Exists(fsys, path) THEN CannotOpenText
    ELSE IF fsys[path].content = FznSat THEN SolutionText
    ELSE IF fsys[path].content = FznUnsat THEN UnsatText
    ELSE ParseErrorText

\* The child "chuffed <path> 2>&1" under the host shell: [text, end].  A name
\* the shell cannot resolve is the shell's diagnostic and the shell's own
\* exit code (127 from sh, 1 from cmd.exe); the spawn itself has succeeded.
Child(fsys, path) ==
    IF ~chuffedOnPath
    THEN {[text |-> IF win32 THEN CmdNotFoundText ELSE ShNotFoundText,
           end |-> IF win32 THEN Exited(1) ELSE Exited(127)]}
    ELSE IF ~Exists(fsys, path) THEN {[text |-> CannotOpenText, end |-> Exited(1)]}
    ELSE {[text |-> SolverText(fsys, path), end |-> e] : e \in Terminations}

\* The value pclose / _pclose returns for a reaped child: the wait status on
\* POSIX (exit code in bits 8..15, signal number in the low bits), the exit
\* code on Windows.
WaitStatus(e) == IF win32 THEN e.n ELSE IF e.exited THEN e.n * 256 ELSE e.n

\* A WEXITSTATUS that takes the low byte of the status.
WEXITSTATUS_LowByte(status) == status % 256

\* WEXITSTATUS(status)
WEXITSTATUS(status) == (status \div 256) % 256

\* execute_command(command, output, exit_code): the outcomes
\* [ok, output, status, exit_code]; status is what pclose returned.
execute_command(fsys, path) ==
    \* popen returned NULL
    {[ok |-> FALSE, output |-> <<>>, status |-> 0, exit_code |-> 0]} \cup
    \* pclose returned -1
    {[ok |-> FALSE, output |-> c.text, status |-> -1, exit_code |-> -1] : c \in Child(fsys, path)} \cup
    {[ok |-> TRUE, output |-> c.text, status |-> WaitStatus(c.end),
      exit_code |-> IF win32 THEN WaitStatus(c.end) ELSE WEXITSTATUS(WaitStatus(c.end))]
        : c \in Child(fsys, path)}

-----------------------------------------------------------------------------
(* solve_flatzinc_nif *)

\* A classification that wants exit code 0 and the terminator for ok.
Classify_Both(code, out, allocOK) ==
    IF code = 0 /\ find(out, Terminator) # npos
    THEN Tuple2("ok", make_binary(out, allocOK))
    ELSE Tuple2("error", make_binary(out, allocOK))

\* The result classification at the end of solve_flatzinc_nif.
Classify(code, out, allocOK) ==
    IF code = 0 \/ find(out, Terminator) # npos
    THEN Tuple2("ok", make_binary(out, allocOK))
    ELSE Tuple2("error", make_binary(out, allocOK))

Return(i, r) ==
    /\ result' = [result EXCEPT ![i] = r]
    /\ pc' = [pc EXCEPT ![i] = "done"]

\* Entry, get_binary on the payload, create_temp_file.  The function table
\* registers arity 2, so argc is 2; options_json is filled ("{}" when the
\* second argument is no binary) and never read, so it is no part of the state.
SolveStart(i) ==
    /\ pc[i] = "idle"
    /\ \E term \in PayloadTerms :
         IF ~get_binary(term)
         THEN /\ Return(i, Tuple2("error", Atom("invalid_flatzinc")))
              /\ UNCHANGED <<fs, flatzinc_content, temp_file>>
         ELSE /\ flatzinc_content' = [flatzinc_content EXCEPT ![i] = term.bin]
              /\ \E r \in create_temp_file(Prefix, Suffix, fs, i) :
                   /\ fs' = r.fs
                   /\ IF ~r.ok
                      THEN /\ Return(i, Tuple2("error", Str("failed_to_create_temp_file")))
                           /\ UNCHANGED temp_file
                      ELSE /\ temp_file' = [temp_file EXCEPT ![i] = r.temp_path]
                           /\ pc' = [pc EXCEPT ![i] = "write"]
                           /\ UNCHANGED result
    /\ UNCHANGED <<win32, libc, chuffedOnPath, output, pstatus, exit_code,
                 handleVars, driverVars>>

\* A write step whose write-failure path returns without remove(temp_file).
SolveWrite_NoCleanup(i) ==
    /\ pc[i] = "write"
    /\ \E is_open \in BOOLEAN, good \in BOOLEAN :
         IF ~is_open
         THEN /\ fs' = remove(fs, temp_file[i])
              /\ Return(i, Tuple2("error", Str("failed_to_open_temp_file")))
         ELSE LET opened == IF Exists(fs, temp_file[i])
                            THEN [fs EXCEPT ![temp_file[i]].content = <<>>]
                            ELSE CreateFile(fs, temp_file[i], i)
                  written == [opened EXCEPT ![temp_file[i]].content = flatzinc_content[i]]
              IN  IF ~good
                  THEN /\ fs' = opened
                       /\ Return(i, Tuple2("error", Str("failed_to_write_temp_file")))
                  ELSE /\ fs' = written
                       /\ pc' = [pc EXCEPT ![i] = "exec"]
                       /\ UNCHANGED result
    /\ UNCHANGED <<win32, libc, chuffedOnPath, flatzinc_content, temp_file, output, pstatus, exit_code,
                 handleVars, driverVars>>

\* std::ofstream fout(temp_file, binary), fout.write, fout.close and the
\* good() test.  Opening creates the file when the name is free and
\* truncates it otherwise.  The stream is open for these lines only, so they
\* are one step: another call's remove or truncation of the same name lands
\* before or after it.
SolveWrite(i) ==
    /\ pc[i] = "write"
    /\ \E is_open \in BOOLEAN, good \in BOOLEAN :
         IF ~is_open
         THEN /\ fs' = remove(fs, temp_file[i])
              /\ Return(i, Tuple2("error", Str("failed_to_open_temp_file")))
         ELSE LET opened == IF Exists(fs, temp_file[i])
                            THEN [fs EXCEPT ![temp_file[i]].content = <<>>]
                            ELSE CreateFile(fs, temp_file[i], i)
                  written == [opened EXCEPT ![temp_file[i]].content = flatzinc_content[i]]
              IN  IF ~good
                  THEN /\ fs' = remove(opened, temp_file[i])
                       /\ Return(i, Tuple2("error", Str("failed_to_write_temp_file")))
                  ELSE /\ fs' = written
                       /\ pc' = [pc EXCEPT ![i] = "exec"]
                       /\ UNCHANGED result
    /\ UNCHANGED <<win32, libc, chuffedOnPath, flatzinc_content, temp_file, output, pstatus, exit_code,
                 handleVars, driverVars>>

\* The command line and execute_command.
SolveExecute(i) ==
    /\ pc[i] = "exec"
    /\ \E r \in execute_command(fs, temp_file[i]) :
         /\ output' = [output EXCEPT ![i] = r.output]
         /\ pstatus' = [pstatus EXCEPT ![i] = r.status]
         /\ exit_code' = [exit_code EXCEPT ![i] = r.exit_code]
         /\ IF ~r.ok
            THEN /\ fs' = remove(fs, temp_file[i])
                 /\ Return(i, Tuple2("error", Str("failed_to_execute_chuffed")))
            ELSE /\ pc' = [pc EXCEPT ![i] = "cleanup"]
                 /\ UNCHANGED <<fs, result>>
    /\ UNCHANGED <<win32, libc, chuffedOnPath, flatzinc_content, temp_file,
                 handleVars, driverVars>>

\* remove(temp_file) and the classified result.
SolveReturn(i) ==
    /\ pc[i] = "cleanup"
    /\ fs' = remove(fs, temp_file[i])
    /\ \E allocOK \in AllocOutcomes : Return(i, Classify(exit_code[i], output[i], allocOK))
    /\ UNCHANGED <<win32, libc, chuffedOnPath, flatzinc_content, temp_file, output, pstatus, exit_code,
                 handleVars, driverVars>>

InitSolve ==
    /\ win32 \in BOOLEAN
    /\ libc \in (IF win32 THEN {"msvcrt"} ELSE {"EINVAL", "literal"})
    /\ chuffedOnPath \in BOOLEAN
    /\ fs = <<>>
    /\ pc = [i \in Calls |-> "idle"]
    /\ flatzinc_content = [i \in Calls |-> <<>>]
    /\ temp_file = [i \in Calls |-> <<>>]
    /\ output = [i \in Calls |-> <<>>]
    /\ pstatus = [i \in Calls |-> 0]
    /\ exit_code = [i \in Calls |-> 0]
    /\ result = [i \in Calls |-> NoResult]
    /\ HandleQuiet
    /\ DriverQuiet

SolveQuiet ==
    /\ win32 = FALSE /\ libc = "EINVAL" /\ chuffedOnPath = TRUE /\ fs = <<>>
    /\ pc = [i \in Calls |-> "idle"]
    /\ flatzinc_content = [i \in Calls |-> <<>>]
    /\ temp_file = [i \in Calls |-> <<>>]
    /\ output = [i \in Calls |-> <<>>]
    /\ pstatus = [i \in Calls |-> 0]
    /\ exit_code = [i \in Calls |-> 0]
    /\ result = [i \in Calls |-> NoResult]

NextSolve ==
    \E i \in Calls :
        \/ SolveStart(i)
        \/ SolveWrite(i)
        \/ SolveExecute(i)
        \/ SolveReturn(i)

SpecSolve == InitSolve /\ [][NextSolve]_vars

-----------------------------------------------------------------------------
(* Claims about solve_flatzinc_nif *)

Done(i) == pc[i] = "done"
ErrStr(s) == Tuple2("error", Str(s))
\* The call got as far as execute_command.
Executed(i) ==
    /\ pc[i] \in {"cleanup", "done"}
    /\ result[i] \notin {Tuple2("error", Atom("invalid_flatzinc")), ErrStr("failed_to_create_temp_file"),
                         ErrStr("failed_to_open_temp_file"), ErrStr("failed_to_write_temp_file")}
\* The call returned the classified result.
Classified(i) == Done(i) /\ "bin" \in DOMAIN result[i].payload
HasTerminator(out) == \E k \in 1..Len(out) : k + 9 <= Len(out) /\ \A d \in 0..9 : out[k + d] = "="

\* C1: when a call of solve has returned, by whichever exit path, no file
\* that this call created is left in the scratch directory.
C1_ScratchFileDeleted ==
    \A i \in Calls : Done(i) => \A p \in DOMAIN fs : fs[p].inode # i

\* C1 witness: a call that created its scratch file and returned through the
\* write-failure path, and one that returned a classified result.
C1_Witness ==
    /\ \E i \in Calls : Done(i) /\ result[i] = ErrStr("failed_to_write_temp_file")
    /\ \E i \in Calls : Classified(i) /\ temp_file[i] # <<>>

\* C2 (as claimed): on a POSIX host with chuffed on PATH, a call with the
\* binary payload of a satisfiable problem never returns
\* failed_to_create_temp_file, and unless opening, writing or spawning
\* failed it returns {ok, output} with the solution terminator in output.
C2_PosixSatisfiableSolved ==
    \A i \in Calls :
        (~win32 /\ chuffedOnPath /\ Done(i) /\ flatzinc_content[i] = FznSat) =>
            /\ result[i] # ErrStr("failed_to_create_temp_file")
            /\ \/ result[i] \in {ErrStr("failed_to_open_temp_file"), ErrStr("failed_to_write_temp_file"),
                                 ErrStr("failed_to_execute_chuffed")}
               \/ /\ result[i].tag = "ok"
                  /\ "bin" \in DOMAIN result[i].payload
                  /\ HasTerminator(result[i].payload.bin)

C4_MissingExecutableReported ==
    \A i \in Calls :
        (~chuffedOnPath /\ Done(i) /\ Executed(i)) =>
            /\ result[i] = ErrStr("failed_to_execute_chuffed")
            /\ \A p \in DOMAIN fs : fs[p].inode # i

\* C5 (as claimed): two calls that overlap in time (each between choosing
\* its scratch path and returning) have chosen distinct scratch paths.
C5_DistinctScratchPaths ==
    \A i, j \in Calls :
        (i # j /\ pc[i] \in {"write", "exec", "cleanup"} /\ pc[j] \in {"write", "exec", "cleanup"}) =>
            temp_file[i] # temp_file[j]

\* C6 (as claimed): when the solver ran to completion and its output carries
\* no solution terminator, the classified result is {error, output}, for
\* every exit code including 0.
C6_NoSolutionIsError ==
    \A i \in Calls :
        (chuffedOnPath /\ Classified(i) /\ (win32 \/ pstatus[i] % 128 = 0) /\ ~HasTerminator(output[i])) =>
            result[i] = Tuple2("error", Bin(output[i]))

\* C10 (as claimed): on POSIX the exit code handed to the classifier is the
\* low 8 bits of the status pclose returned, for every status but -1.
C10_LowEightBits ==
    \A i \in Calls :
        (~win32 /\ Executed(i) /\ pstatus[i] # -1) => exit_code[i] = pstatus[i] % 256

\* C10 (amended): on POSIX the exit code handed to the classifier is bits
\* 8..15 of the status pclose returned, (status div 256) mod 256, for every
\* status but -1; a status of -1 makes solve return
\* {error, "failed_to_execute_chuffed"} without classifying.
C10_ExitStatusBits ==
    \A i \in Calls :
        (~win32 /\ Executed(i)) =>
            /\ pstatus[i] # -1 => exit_code[i] = (pstatus[i] \div 256) % 256
            /\ pstatus[i] = -1 => Done(i) /\ result[i] = ErrStr("failed_to_execute_chuffed")

\* C10 witness: on POSIX, a child that exited with code 1 (status 256) has
\* been classified with exit code 1, and a reap failure has been answered.
C10_Witness ==
    /\ ~win32
    /\ \E i, j \in Calls :
         /\ Classified(i) /\ pstatus[i] = 256 /\ exit_code[i] = 1
         /\ Done(j) /\ pstatus[j] = -1 /\ result[j] = ErrStr("failed_to_execute_chuffed")

-----------------------------------------------------------------------------
(* create_solver_nif, destroy_solver_nif, chuffed_solver_destructor *)

ResourceTerm(h) == [resource |-> h]

\* chuffed_solver_destructor(env, obj): the cleanup body runs only on an
\* initialized solver and leaves it uninitialized.
chuffed_solver_destructor(r) ==
    IF r.initialized
    THEN [r EXCEPT !.initialized = FALSE, !.cleanups = @ + 1, !.dtorRuns = @ + 1]
    ELSE [r EXCEPT !.dtorRuns = @ + 1]

\* Dropping one reference to a resource object (enif_release_resource, or
\* the host's collector dropping the term): the last reference runs the
\* destructor of the resource type and frees the object.
Release(r) ==
    IF r.refc = 1
    THEN [chuffed_solver_destructor(r) EXCEPT !.refc = 0, !.state = "freed"]
    ELSE [r EXCEPT !.refc = @ - 1]

\* enif_get_resource(term, chuffed_solver_type): the term is a resource
\* term of the type, naming an object that is there.
enif_get_resource(term) ==
    "resource" \in DOMAIN term /\ res[term.resource].state = "live"

\* create_solver_nif: enif_alloc_resource (one reference), the two fields,
\* enif_make_resource (the term's reference), enif_release_resource.
CreateSolver ==
    /\ \E h \in Handles :
         /\ res[h].state = "none"
         /\ \A g \in Handles : g < h => res[g].state # "none"
         /\ \E allocOK \in AllocOutcomes :
              IF ~allocOK
              THEN /\ reply' = Tuple2("error", Atom("allocation_failed"))
                   /\ UNCHANGED <<res, held>>
              ELSE LET allocated == [res[h] EXCEPT !.state = "live", !.refc = 1]
                       filled == [allocated EXCEPT !.solver = "NULL", !.initialized = FALSE]
                       made == [filled EXCEPT !.refc = @ + 1]
                   IN  /\ res' = [res EXCEPT ![h] = Release(made)]
                       /\ held' = held \cup {h}
                       /\ reply' = Tuple2("ok", ResourceTerm(h))
    /\ UNCHANGED <<destroyLog, solveVars, driverVars>>

\* The terms a caller can pass to destroy_solver: a resource term it holds,
\* or a term that is no resource.
DestroyArgs == {ResourceTerm(h) : h \in held} \cup {Atom("not_a_resource")}

\* A destroy_solver_nif that drops a reference to the resource.
DestroySolver_Releases ==
    /\ \E term \in DestroyArgs :
         IF ~enif_get_resource(term)
         THEN /\ reply' = Tuple2("error", Atom("invalid_resource"))
              /\ IF "resource" \in DOMAIN term
                 THEN /\ Len(destroyLog[term.resource]) < MaxDestroy
                      /\ destroyLog' = [destroyLog EXCEPT ![term.resource] = Append(@, reply')]
                 ELSE UNCHANGED destroyLog
              /\ UNCHANGED res
         ELSE /\ Len(destroyLog[term.resource]) < MaxDestroy
              /\ reply' = Atom("ok")
              /\ destroyLog' = [destroyLog EXCEPT ![term.resource] = Append(@, reply')]
              /\ res' = [res EXCEPT ![term.resource] = Release(@)]
    /\ UNCHANGED <<held, solveVars, driverVars>>

\* destroy_solver_nif: enif_get_resource on the argument, then ok; the
\* resource is left to the destructor.
DestroySolver ==
    /\ \E term \in DestroyArgs :
         IF ~enif_get_resource(term)
         THEN /\ reply' = Tuple2("error", Atom("invalid_resource"))
              /\ IF "resource" \in DOMAIN term
                 THEN /\ Len(destroyLog[term.resource]) < MaxDestroy
                      /\ destroyLog' = [destroyLog EXCEPT ![term.resource] = Append(@, reply')]
                 ELSE UNCHANGED destroyLog
         ELSE /\ Len(destroyLog[term.resource]) < MaxDestroy
              /\ reply' = Atom("ok")
              /\ destroyLog' = [destroyLog EXCEPT ![term.resource] = Append(@, reply')]
    /\ UNCHANGED <<res, held, solveVars, driverVars>>

\* The host's collector drops the resource term: the term's reference goes.
HostGC ==
    /\ \E h \in held :
         /\ held' = held \ {h}
         /\ res' = [res EXCEPT ![h] = Release(@)]
    /\ UNCHANGED <<destroyLog, reply, solveVars, driverVars>>

InitHandle == HandleQuiet /\ SolveQuiet /\ DriverQuiet

NextHandle ==
    \/ CreateSolver
    \/ DestroySolver
    \/ HostGC

SpecHandle == InitHandle /\ [][NextHandle]_vars

\* C8 (as claimed): the first destroy_handle(h) returns ok and a second
\* destroy_handle(h) is rejected with {error, invalid_resource}.
C8_SecondDestroyRejected ==
    \A h \in Handles :
        /\ Len(destroyLog[h]) >= 1 => destroyLog[h][1] = Atom("ok")
        /\ Len(destroyLog[h]) >= 2 => destroyLog[h][2] = Tuple2("error", Atom("invalid_resource"))

\* C8 (amended): every destroy_handle(h) on a handle the host holds, the
\* first and any later one, returns ok and leaves h a valid handle with the
\* host's single reference; h is released only when the host drops it, and
\* then the destructor runs exactly once; the cleanup body never runs twice.
C8_DestroyLeavesHandleValid ==
    \A h \in Handles :
        /\ \A k \in DOMAIN destroyLog[h] : destroyLog[h][k] = Atom("ok")
        /\ h \in held => res[h].state = "live" /\ res[h].refc = 1 /\ res[h].dtorRuns = 0
        /\ res[h].state = "freed" => h \notin held /\ res[h].refc = 0 /\ res[h].dtorRuns = 1
        /\ res[h].cleanups <= 1

\* C8 witness: a handle destroyed twice and still held, beside one that was
\* destroyed and then collected.
C8_Witness ==
    \E h, g \in Handles :
        /\ h \in held /\ Len(destroyLog[h]) >= 2
        /\ res[g].state = "freed" /\ Len(destroyLog[g]) >= 1

-----------------------------------------------------------------------------
(* The standalone driver: main *)

OkLine == <<"o", "k", "\n">>
ErrorLine == <<"e", "r", "r", "o", "r", "\n">>
NoContentReason == <<"N", "o", " ", "F", "l", "a", "t", "Z", "i", "n", "c", " ", "c", "o", "n", "t", "e", "n", "t", " ", "p", "r", "o", "v", "i", "d", "e", "d">>
ParseFailedReason == <<"F", "a", "i", "l", "e", "d", " ", "t", "o", " ", "p", "a", "r", "s", "e", " ", "F", "l", "a", "t", "Z", "i", "n", "c", " ", "p", "r", "o", "b", "l", "e", "m">>
UnsatReason == <<"U", "N", "S", "A", "T", "I", "S", "F", "I", "A", "B", "L", "E">>
NoSolutionReason == <<"N", "o", " ", "s", "o", "l", "u", "t", "i", "o", "n", " ", "f", "o", "u", "n", "d">>
UnknownExceptionReason == <<"U", "n", "k", "n", "o", "w", "n", " ", "e", "x", "c", "e", "p", "t", "i", "o", "n">>

\* What the embedded solver may hand back: e.what() of an exception, the
\* text captured in output_stream, the text captured in error_stream.
WhatText == <<"b", "a", "d", " ", "a", "l", "l", "o", "c">>
DriverSolutionText == <<"x", " ", "=", " ", "2", ";", "\n", "-", "-", "-", "-", "-", "-", "-", "-", "-", "-", "\n">>
WarningText == <<"w", "a", "r", "n", "i", "n", "g", "\n">>
Solutions == {<<>>, DriverSolutionText}
ErrorTexts == {<<>>, WarningText}

\* The engine's RESULT values.
RESULT == {"RES_SAT", "RES_LUN", "RES_GUN", "RES_UNK", "RES_SEA"}

\* The byte strings standard input may hold.
StdinInputs == UNION {[1..n -> {"a", "\n"}] : n \in 0..MaxStdin}

\* The std::getline loop: each line read is appended with a "\n"; a last
\* line without terminator is read as a line, an exhausted stream ends it.
RECURSIVE ReadLines(_, _)
ReadLines(in, acc) ==
    IF in = <<>> THEN acc
    ELSE LET nl == find(in, <<"\n">>)
             line == IF nl = npos THEN in ELSE substr0(in, nl)
             rest == IF nl = npos THEN <<>> ELSE SubSeq(in, nl + 2, Len(in))
         IN  ReadLines(rest, acc \o line \o <<"\n">>)

\* std::cerr << "error\n" << reason << std::endl
ErrorBlock(reason) == ErrorLine \o reason \o <<"\n">>
\* std::cout << "ok\n" << solution << std::flush
OkBlock(sol) == OkLine \o sol

Exit(code) == dpc' = "exited" /\ exit_status' = code

\* A read step that reports the empty input and goes on.
DriverRead_NoReturn ==
    /\ dpc = "read"
    /\ LET read == ReadLines(cin, <<>>)
           terminated == IF read # <<>> /\ read[Len(read)] # "\n" THEN read \o <<"\n">> ELSE read
       IN  /\ drv_content' = terminated
           /\ IF terminated = <<>>
              THEN /\ cerr' = cerr \o ErrorBlock(NoContentReason)
                   /\ dpc' = "parse"
                   /\ UNCHANGED exit_status
              ELSE /\ dpc' = "parse"
                   /\ UNCHANGED <<cerr, exit_status>>
    /\ UNCHANGED <<cin, fz_s, errors, solution, engine_status, cout, solveVars, handleVars>>

\* Reading standard input to its end, and the empty-input exit.
DriverRead ==
    /\ dpc = "read"
    /\ LET read == ReadLines(cin, <<>>)
           terminated == IF read # <<>> /\ read[Len(read)] # "\n" THEN read \o <<"\n">> ELSE read
       IN  /\ drv_content' = terminated
           /\ IF terminated = <<>>
              THEN /\ cerr' = cerr \o ErrorBlock(NoContentReason)
                   /\ Exit(1)
              ELSE /\ dpc' = "parse"
                   /\ UNCHANGED <<cerr, exit_status>>
    /\ UNCHANGED <<cin, fz_s, errors, solution, engine_status, cout, solveVars, handleVars>>

\* The two handlers of main: an exception of the solver ends the run with
\* its message, or with "Unknown exception".
Caught(thrown) ==
    /\ cerr' = cerr \o ErrorBlock(IF thrown = "std::exception" THEN WhatText ELSE UnknownExceptionReason)
    /\ Exit(1)

\* parseOptions and FlatZinc::solve(flatzinc_stream, error_stream), then the
\* test of FlatZinc::s.  The parser is the solver's: it throws, leaves
\* FlatZinc::s null, or builds the problem, and may write to error_stream.
DriverParse ==
    /\ dpc = "parse"
    /\ \E outcome \in {"std::exception", "other", "nullptr", "space"}, e \in ErrorTexts :
         IF outcome \in {"std::exception", "other"}
         THEN /\ Caught(outcome)
              /\ UNCHANGED <<fz_s, errors>>
         ELSE /\ fz_s' = outcome
              /\ errors' = e
              /\ IF outcome = "nullptr"
                 THEN /\ cerr' = cerr \o ErrorBlock(ParseFailedReason)
                      /\ Exit(1)
                 ELSE /\ dpc' = "solve"
                      /\ UNCHANGED <<cerr, exit_status>>
    /\ UNCHANGED <<cin, drv_content, solution, engine_status, cout, solveVars, handleVars>>

\* engine.setOutputStream, engine.set_assumptions, engine.solve: the engine
\* throws, or returns with its status set and its output captured.
DriverSolve ==
    /\ dpc = "solve"
    /\ \E outcome \in {"std::exception", "other", "returned"}, st \in RESULT, sol \in Solutions :
         IF outcome # "returned"
         THEN /\ Caught(outcome)
              /\ UNCHANGED <<solution, engine_status>>
         ELSE /\ engine_status' = st
              /\ solution' = sol
              /\ dpc' = "output"
              /\ UNCHANGED <<cerr, exit_status>>
    /\ UNCHANGED <<cin, drv_content, fz_s, errors, cout, solveVars, handleVars>>

\* An output step that wants captured output before it answers ok.
DriverOutput_WantsOutput ==
    /\ dpc = "output"
    /\ IF engine_status \in {"RES_LUN", "RES_GUN"}
       THEN /\ cerr' = cerr \o ErrorBlock(UnsatReason)
            /\ Exit(1)
            /\ UNCHANGED cout
       ELSE IF solution = <<>>
            THEN /\ cerr' = cerr \o ErrorBlock(NoSolutionReason)
                 /\ Exit(1)
                 /\ UNCHANGED cout
            ELSE /\ cout' = cout \o OkBlock(solution)
                 /\ Exit(0)
                 /\ UNCHANGED cerr
    /\ UNCHANGED <<cin, drv_content, fz_s, errors, solution, engine_status, solveVars, handleVars>>

\* The result block, from engine.status and the captured output.
DriverOutput ==
    /\ dpc = "output"
    /\ IF engine_status = "RES_SAT"
       THEN /\ cout' = cout \o OkBlock(solution)
            /\ Exit(0)
            /\ UNCHANGED cerr
       ELSE IF engine_status = "RES_LUN" \/ engine_status = "RES_GUN"
            THEN /\ cerr' = cerr \o ErrorBlock(UnsatReason)
                 /\ Exit(1)
                 /\ UNCHANGED cout
            ELSE IF solution = <<>>
                 THEN /\ cerr' = cerr \o ErrorBlock(NoSolutionReason)
                      /\ Exit(1)
                      /\ UNCHANGED cout
                 ELSE /\ cout' = cout \o OkBlock(solution)
                      /\ Exit(0)
                      /\ UNCHANGED cerr
    /\ UNCHANGED <<cin, drv_content, fz_s, errors, solution, engine_status, solveVars, handleVars>>

InitDriver ==
    /\ dpc = "read" /\ cin \in StdinInputs /\ drv_content = <<>> /\ fz_s = "nullptr"
    /\ errors = <<>> /\ solution = <<>> /\ engine_status = "RES_UNK"
    /\ cout = <<>> /\ cerr = <<>> /\ exit_status = -1
    /\ SolveQuiet
    /\ HandleQuiet

NextDriver ==
    \/ DriverRead
    \/ DriverParse
    \/ DriverSolve
    \/ DriverOutput

SpecDriver == InitDriver /\ [][NextDriver]_vars

\* The reasons an error block may carry.
Reasons == {NoContentReason, ParseFailedReason, UnsatReason, NoSolutionReason, WhatText, UnknownExceptionReason}

\* C7: a run that has ended wrote exactly one result block: "ok\n<solution>"
\* on standard output alone with exit code 0, or "error\n<reason>" on the
\* error stream alone with exit code 1; a run that has not ended has written
\* nothing.
C7_ExactlyOneBlock ==
    IF dpc = "exited"
    THEN \/ exit_status = 0 /\ cerr = <<>> /\ cout = OkLine \o solution
         \/ exit_status = 1 /\ cout = <<>> /\ \E r \in Reasons : cerr = ErrorLine \o r \o <<"\n">>
    ELSE cout = <<>> /\ cerr = <<>> /\ exit_status = -1

\* C7 witness: a run ended by an exception of the engine, after a parse
\* that succeeded.
C7_Witness ==
    dpc = "exited" /\ fz_s = "space" /\ exit_status = 1 /\ cerr = ErrorLine \o WhatText \o <<"\n">>

\* C9: the output step writes ok with the captured output when the status
\* is Satisfied (even with no output), "error\nUNSATISFIABLE" when it is
\* local or global unsatisfiability (whatever the output), and for any other
\* status "error\nNo solution found" when the output is empty and ok with
\* the output otherwise; the captured error stream plays no part.
C9_OutputRule ==
    [][(dpc = "output" /\ dpc' = "exited") =>
         <<cout', cerr', exit_status'>> =
            CASE engine_status = "RES_SAT" -> <<OkLine \o solution, <<>>, 0>>
              [] engine_status \in {"RES_LUN", "RES_GUN"} -> <<<<>>, ErrorLine \o UnsatReason \o <<"\n">>, 1>>
              [] engine_status \in {"RES_UNK", "RES_SEA"} /\ solution = <<>> ->
                    <<<<>>, ErrorLine \o NoSolutionReason \o <<"\n">>, 1>>
              [] engine_status \in {"RES_UNK", "RES_SEA"} /\ solution # <<>> ->
                    <<OkLine \o solution, <<>>, 0>>]_vars

\* C9 witness: Satisfied with no captured output and a non-empty error
\* stream, answered ok.
C9_Witness ==
    /\ dpc = "exited" /\ engine_status = "RES_SAT" /\ solution = <<>> /\ errors # <<>>
    /\ cout = OkLine /\ exit_status = 0

=============================================================================
